---------------------------- MODULE Spec2Model ----------------------------
(***************************************************************************)
(* Model of the models-show orchestration layer: the three FastAPI backend *)
(* services (CodeFormer /restore, GFPGAN /restore, Ref-LDM /generate),     *)
(* the output resolver find_output_files and the Gradio dispatcher         *)
(* process_image.                                                          *)
(*                                                                         *)
(* A path is a record [dir, name]: dir is the sequence of directory        *)
(* components (a leading "/" component marks an absolute path) and name is *)
(* the last component as a sequence of characters, so that basename,       *)
(* splitext, startswith and glob matching are computed character by        *)
(* character.  A directory path is the bare sequence of components.        *)
(* A float with one decimal is kept in tenths (0.5 is 5).                  *)
(***************************************************************************)
EXTENDS Integers, Sequences, FiniteSets, TLC

VARIABLES
    fs,        \* files written under the output directories, in listing order
    dirs,      \* directories created by os.makedirs
    req,       \* req[r]: the request body received by a backend service
    pc,        \* pc[r]: where request r stands
    resp,      \* resp[r]: the HTTP response of the backend service
    started,   \* started[r]: times the external inference process was started
    consulted, \* consulted[r]: times the output resolver was consulted
    wrote,     \* wrote[r]: the files the inference process of request r wrote
    proc,      \* proc[r]: the inference process of request r and, once it exited, its result
    call,      \* call[r]: the arguments of process_image, for a request made through it
    appOut,    \* appOut[r]: what process_image returned or raised
    nextUuid,  \* number of uuid4() values drawn so far
    probe      \* the last sequential /restore call on the resolver's filesystem

vars == <<fs, dirs, req, pc, resp, started, consulted, wrote, proc, call, appOut, nextUuid, probe>>

-----------------------------------------------------------------------------
(* Bounds of the model *)

\* most files the filesystem of the resolver specification holds
MaxFiles == 3
\* most files one external process writes before it exits
MaxWrites == 1

-----------------------------------------------------------------------------
(* Paths *)

None == <<>>

Png == <<".", "p", "n", "g">>
Jpg == <<".", "j", "p", "g">>

Range(s) == {s[i] : i \in 1..Len(s)}

Path(d, n) == [dir |-> d, name |-> n]

\* os.path.isabs
IsAbs(d) == d # <<>> /\ d[1] = "/"

\* os.path.abspath of a directory, for a process whose working directory is cwd
AbsDir(cwd, d) == IF IsAbs(d) THEN d ELSE cwd \o d

\* os.path.abspath of a file path
abspath(cwd, p) == Path(AbsDir(cwd, p.dir), p.name)

\* os.path.dirname of a directory path
Parent(d) == IF Len(d) = 0 THEN d ELSE SubSeq(d, 1, Len(d) - 1)

\* str.startswith
startswith(s, prefix) ==
    /\ Len(prefix) <= Len(s)
    /\ SubSeq(s, 1, Len(prefix)) = prefix

\* position of the last "." of a name that has a character before it, 0 if none
LastDot(n) ==
    LET dots == {i \in 2..Len(n) : n[i] = "." /\ \E j \in 1..(i - 1) : n[j] # "."}
    IN  IF dots = {} THEN 0 ELSE CHOOSE i \in dots : \A j \in dots : j <= i

\* os.path.splitext(name)[0]
splitext(n) == IF LastDot(n) = 0 THEN n ELSE SubSeq(n, 1, LastDot(n) - 1)

\* str(weight) of a float kept in tenths
Digit == <<"0", "1", "2", "3", "4", "5", "6", "7", "8", "9">>

FloatStr(w) ==
    IF w < 0 THEN "-" \o Digit[((-w) \div 10) + 1] \o "." \o Digit[((-w) % 10) + 1]
    ELSE Digit[(w \div 10) + 1] \o "." \o Digit[(w % 10) + 1]

-----------------------------------------------------------------------------
(* glob *)

\* position of the "]" that closes the character class opened by pat[1] =
\* "[", 0 when there is none and the "[" stands for itself; a "]" right
\* after the "[" or the "[!" is a member of the class
ClassEnd(pat) ==
    LET first   == IF Len(pat) >= 2 /\ pat[2] = "!" THEN 3 ELSE 2
        closing == {j \in (first + 1)..Len(pat) : pat[j] = "]"}
    IN  IF closing = {} THEN 0 ELSE CHOOSE j \in closing : \A k \in closing : j <= k

\* character c is matched by the class that pat opens (the names of this
\* model hold no "-", so the class is a plain list of characters)
InClass(c, pat) ==
    LET negated == pat[2] = "!"
        first   == IF negated THEN 3 ELSE 2
        members == {pat[j] : j \in first..(ClassEnd(pat) - 1)}
    IN  IF negated THEN c \notin members ELSE c \in members

\* fnmatch: "*" in the pattern matches any run of characters, "?" any one
\* character, "[...]" one character of the class, every other character
\* matches itself
RECURSIVE fnmatch(_, _)
fnmatch(name, pat) ==
    IF pat = <<>> THEN name = <<>>
    ELSE IF Head(pat) = "*"
         THEN \/ fnmatch(name, Tail(pat))
              \/ (name # <<>> /\ fnmatch(Tail(name), pat))
    ELSE IF Head(pat) = "?"
         THEN name # <<>> /\ fnmatch(Tail(name), Tail(pat))
    ELSE IF Head(pat) = "[" /\ ClassEnd(pat) # 0
         THEN /\ name # <<>>
              /\ InClass(Head(name), pat)
              /\ fnmatch(Tail(name), SubSeq(pat, ClassEnd(pat) + 1, Len(pat)))
    ELSE /\ name # <<>>
         /\ Head(name) = Head(pat)
         /\ fnmatch(Tail(name), Tail(pat))

\* glob never matches a hidden name with a pattern that does not start with "."
Visible(name, pat) ==
    ~ (name # <<>> /\ Head(name) = "." /\ (pat = <<>> \/ Head(pat) # "."))

\* glob.glob(os.path.join(d, pat)) on the listing `listing`: the matching
\* entries of directory d in listing order, named as the pattern names them
glob(listing, cwd, d, pat) ==
    LET hit(f) == /\ f.dir = AbsDir(cwd, d)
                  /\ fnmatch(f.name, pat)
                  /\ Visible(f.name, pat)
        hits == SelectSeq(listing, hit)
    IN  [i \in 1..Len(hits) |-> Path(d, hits[i].name)]

\* os.path.exists of a directory
DirExists(listing, made, cwd, d) ==
    \/ AbsDir(cwd, d) \in made
    \/ \E i \in 1..Len(listing) :
           /\ Len(listing[i].dir) >= Len(AbsDir(cwd, d))
           /\ SubSeq(listing[i].dir, 1, Len(AbsDir(cwd, d))) = AbsDir(cwd, d)

-----------------------------------------------------------------------------
(* CodeFormer service: find_output_files *)

\* working directory of the CodeFormer service: it starts inference_codeformer.py
\* by its bare name, so it runs in the directory that holds the script
CodeFormerCwd == <<"/", "srv", "codeFormer-whu">>

\* mutant of ResultDir: the output_path of the request is not looked at
ResultDirDefault(output_path, weight) ==
    <<"results", "test_img_" \o FloatStr(weight)>>

\* result_dir of find_output_files
ResultDir(output_path, weight) ==
    IF output_path = None
    THEN <<"results", "test_img_" \o FloatStr(weight)>>
    ELSE output_path

\* possible_patterns, in the declared order, each a directory and a name pattern
possible_patterns(result_dir, input_name) ==
    << <<result_dir \o <<"final_results">>,  input_name \o Png>>,
       <<result_dir \o <<"final_results">>,  input_name \o <<"*">> \o Png>>,
       <<result_dir \o <<"restored_faces">>, input_name \o Png>>,
       <<result_dir \o <<"restored_faces">>, input_name \o <<"_", "*">> \o Png>>,
       <<result_dir \o <<"restored_faces">>, input_name \o <<"*">> \o Png>>,
       <<result_dir,                         input_name \o Png>>,
       <<result_dir,                         input_name \o <<"*">> \o Png>>,
       <<result_dir \o <<"final_results">>,  <<"*">> \o Png>>,
       <<result_dir \o <<"restored_faces">>, <<"*">> \o Png>>,
       <<result_dir,                         <<"*">> \o Png>> >>

\* mutant of SelectedPattern: the last pattern that has a match wins
SelectedPatternLast(matches) ==
    LET hit == {i \in 1..Len(matches) : matches[i] # <<>>}
    IN  IF hit = {} THEN 0 ELSE CHOOSE i \in hit : \A j \in hit : j <= i

\* the loop over possible_patterns stops (break) at the first pattern whose
\* glob is not empty: its index, 0 when no pattern has a match
SelectedPattern(matches) ==
    LET hit == {i \in 1..Len(matches) : matches[i] # <<>>}
    IN  IF hit = {} THEN 0 ELSE CHOOSE i \in hit : \A j \in hit : i <= j

\* mutant of MainOf: the first match of the listing, whatever its name
MainOfFirst(files, input_name) == files[1]

\* the main result among the matches `files` of the selected pattern
MainOf(files, input_name) ==
    IF Len(files) > 1
    THEN LET exact_match == SelectSeq(files, LAMBDA f : startswith(f.name, input_name))
         IN  IF exact_match # <<>> THEN exact_match[1] ELSE files[1]
    ELSE files[1]

\* find_output_files(input_path, output_path, weight) on the listing `listing`;
\* the returned dict is a function from its keys
find_output_files(listing, made, input_path, output_path, weight) ==
    LET input_name == splitext(input_path.name)
        result_dir == ResultDir(output_path, weight)
        patterns   == possible_patterns(result_dir, input_name)
        matches    == [i \in 1..Len(patterns) |->
                          glob(listing, CodeFormerCwd, patterns[i][1], patterns[i][2])]
        k          == SelectedPattern(matches)
    IN  IF k = 0 THEN <<>>
        ELSE LET main    == MainOf(matches[k], input_name)
                 related == glob(listing, CodeFormerCwd, main.dir, input_name \o <<"*">>)
                 cropped_faces_dir == Parent(main.dir) \o <<"cropped_faces">>
             IN  IF DirExists(listing, made, CodeFormerCwd, cropped_faces_dir)
                 THEN [main_result   |-> main,
                       related_files |-> related,
                       cropped_faces |-> glob(listing, CodeFormerCwd, cropped_faces_dir,
                                              input_name \o <<"*">>)]
                 ELSE [main_result   |-> main,
                       related_files |-> related]

\* the paths of output_files made absolute (the "fix" block of restore_face)
AbsOutputFiles(of) ==
    LET absSeq(s) == [i \in 1..Len(s) |-> abspath(CodeFormerCwd, s[i])]
    IN  IF "cropped_faces" \in DOMAIN of
        THEN [main_result   |-> abspath(CodeFormerCwd, of.main_result),
              related_files |-> absSeq(of.related_files),
              cropped_faces |-> absSeq(of.cropped_faces)]
        ELSE [main_result   |-> abspath(CodeFormerCwd, of.main_result),
              related_files |-> absSeq(of.related_files)]

\* the messages of the CodeFormer service, in English
InputMissing   == "input file does not exist"           \* "输入文件不存在"
RestoreDone    == "restoration finished"                \* "修复完成"
OutputNotFound == "processing succeeded but no output file was found"
                                                        \* "处理成功但未找到输出文件"
ProcessFailed  == "processing failed"                   \* "处理失败"

\* mutant of Resolves: the exit code is not looked at
ResolvesAlways(request, result) == TRUE

\* whether a handler goes on to its output search (find_output_files, the
\* glob of restored_imgs, the exists of output_path): `if result.returncode
\* == 0`, and with check=True no CalledProcessError
Resolves(request, result) == result.returncode = 0

\* restore_face after subprocess.run returned `result`: the body of the response
CodeFormerAfterRun(listing, made, request, result) ==
    IF Resolves(request, result)
    THEN LET output_files == find_output_files(listing, made, request.input_path,
                                               request.output_path, request.weight)
         IN  IF "main_result" \in DOMAIN output_files
             THEN [status       |-> "success",
                   output_files |-> AbsOutputFiles(output_files),
                   message      |-> RestoreDone]
             ELSE [error |-> OutputNotFound]
    ELSE [error      |-> ProcessFailed,
          details    |-> result.stderr,
          stdout     |-> result.stdout,
          returncode |-> result.returncode]

-----------------------------------------------------------------------------
(* Inputs of the model *)

\* the two requests that may be in flight together
Requests == {1, 2}

\* uploaded images, present on the filesystem throughout
InputImg == Path(<<"/", "data">>, <<"a">> \o Jpg)
StarImg  == Path(<<"/", "data">>, <<"a", "*">> \o Jpg)
BracketImg == Path(<<"/", "data">>, <<"a", "[", "1", "]">> \o Jpg)
RefImg   == Path(<<"/", "data">>, <<"r">> \o Jpg)
StaticFiles == {InputImg, StarImg, BracketImg, RefImg}

\* paths that name nothing
MissingImg == Path(<<"/", "data">>, <<"m">> \o Jpg)
MissingRef == Path(<<"/", "data">>, <<"n">> \o Jpg)

\* os.path.exists / os.path.isfile of a file path
exists(listing, cwd, p) ==
    \/ p \in StaticFiles
    \/ abspath(cwd, p) \in Range(listing)

isfile(listing, cwd, p) ==
    \/ p \in StaticFiles
    \/ abspath(cwd, p) \in Range(listing)

NoReq   == [kind |-> "none"]
NoResp  == [code |-> 0]
NoCall  == [model |-> "none"]
NoOut   == [kind |-> "none"]
NoProbe == [kind |-> "none"]

\* the inference process of a request
NotStarted == [state |-> "none"]
Running    == [state |-> "running"]
Hung       == [state |-> "hung"]
Exited(result) ==
    [state |-> "exited", returncode |-> result.returncode,
     stdout |-> result.stdout, stderr |-> result.stderr]

Init ==
    /\ fs = <<>>
    /\ dirs = {}
    /\ req = [r \in Requests |-> NoReq]
    /\ pc = [r \in Requests |-> "New"]
    /\ resp = [r \in Requests |-> NoResp]
    /\ started = [r \in Requests |-> 0]
    /\ consulted = [r \in Requests |-> 0]
    /\ wrote = [r \in Requests |-> {}]
    /\ proc = [r \in Requests |-> NotStarted]
    /\ call = [r \in Requests |-> NoCall]
    /\ appOut = [r \in Requests |-> NoOut]
    /\ nextUuid = 0
    /\ probe = NoProbe

\* positions at which a directory may list a new file: among the entries of
\* the same directory, in any order
InsertPositions(listing, f) ==
    LET near == {i \in 1..(Len(listing) + 1) :
                    \/ (i <= Len(listing) /\ listing[i].dir = f.dir)
                    \/ (i > 1 /\ listing[i - 1].dir = f.dir)}
    IN  IF near = {} THEN {Len(listing) + 1} ELSE near

\* the listing with file f entered at position i
InsertAt(listing, i, f) ==
    SubSeq(listing, 1, i - 1) \o <<f>> \o SubSeq(listing, i, Len(listing))

-----------------------------------------------------------------------------
(* The resolver on its own: one CodeFormer service, called sequentially, on  *)
(* a result directory that holds any files                                   *)

ProbeInputs == {InputImg, StarImg, BracketImg}

ProbeWeight == 5

\* the default result_dir of the probe's requests
ProbeRoot == AbsDir(CodeFormerCwd, ResultDir(None, ProbeWeight))

\* the directories find_output_files looks into for the default result_dir
ProbeDirs ==
    {ProbeRoot \o <<"final_results">>, ProbeRoot \o <<"restored_faces">>, ProbeRoot}

\* names of results: after the input, after an input with "*" or brackets in
\* its name, with a suffix, after another input, and a related file that is
\* no .png
ProbeNames(d) ==
    IF d = ProbeRoot \o <<"final_results">>
    THEN {<<"a">> \o Png, <<"a", "*">> \o Png, <<"a", "*", "b">> \o Png,
          <<"a", "_", "0">> \o Png, <<"b">> \o Png, <<"a">> \o Jpg,
          <<"a", "[", "1", "]">> \o Png}
    ELSE IF d = ProbeRoot \o <<"restored_faces">>
    THEN {<<"a">> \o Png, <<"a", "*">> \o Png, <<"a", "_", "0">> \o Png, <<"b">> \o Png}
    ELSE {<<"a">> \o Png, <<"a", "*">> \o Png, <<"b">> \o Png}

\* cropped faces, beside final_results and beside the result directory
ProbeCropped ==
    {Path(ProbeRoot \o <<"cropped_faces">>, <<"a", "_", "0", "0">> \o Png),
     Path(ProbeRoot \o <<"cropped_faces">>, <<"b", "_", "0", "0">> \o Png),
     Path(Parent(ProbeRoot) \o <<"cropped_faces">>, <<"a", "_", "0", "0">> \o Png)}

ProbeFiles ==
    UNION {{Path(d, n) : n \in ProbeNames(d)} : d \in ProbeDirs} \cup ProbeCropped

\* some process writes file f, which the directory then lists at position i
FsWrite(f, i) ==
    /\ probe = NoProbe
    /\ Len(fs) < MaxFiles
    /\ f \notin Range(fs)
    /\ fs' = InsertAt(fs, i, f)
    /\ UNCHANGED <<dirs, req, pc, resp, started, consulted, wrote, proc, call, appOut, nextUuid, probe>>

\* POST /restore of the CodeFormer service, the inference process exiting 0
\* without writing: restore_face from its first line to its return
SequentialRestore(input_path) ==
    /\ probe = NoProbe
    /\ exists(fs, CodeFormerCwd, input_path)
    /\ LET request == [kind |-> "CodeFormer", input_path |-> input_path,
                       output_path |-> None, weight |-> ProbeWeight]
           result  == [returncode |-> 0, stdout |-> "", stderr |-> ""]
       IN  probe' = [kind         |-> "CodeFormer",
                     request      |-> request,
                     output_files |-> find_output_files(fs, dirs, input_path, None,
                                                        ProbeWeight),
                     response     |-> CodeFormerAfterRun(fs, dirs, request, result)]
    /\ UNCHANGED <<fs, dirs, req, pc, resp, started, consulted, wrote, proc, call, appOut, nextUuid>>

ResolverNext ==
    \/ \E f \in ProbeFiles : \E i \in InsertPositions(fs, f) : FsWrite(f, i)
    \/ \E p \in ProbeInputs : SequentialRestore(p)

ResolverSpec == Init /\ [][ResolverNext]_vars

\* what the probe's call worked on
ProbeName == splitext(probe.request.input_path.name)
ProbePatterns ==
    possible_patterns(ResultDir(probe.request.output_path, probe.request.weight), ProbeName)

\* file f of the filesystem is matched by pattern k of patterns
Matches(patterns, f, k) ==
    /\ f.dir = AbsDir(CodeFormerCwd, patterns[k][1])
    /\ fnmatch(f.name, patterns[k][2])

\* file f of the filesystem is matched by pattern k
MatchedBy(f, k) == Matches(ProbePatterns, f, k)

\* position of the file in the listing
PosIn(listing, f) == CHOOSE i \in 1..Len(listing) : listing[i] = f

ProbeFound == probe # NoProbe /\ "main_result" \in DOMAIN probe.output_files
ProbeMain  == abspath(CodeFormerCwd, probe.output_files.main_result)

\* C4: the main result of find_output_files is a file matched by the first
\* pattern, in the declared order of possible_patterns, that has any match:
\* no pattern before the one that matched it has a match on the filesystem.
C4_FirstPatternWins ==
    ProbeFound =>
        LET patterns == ProbePatterns
            main     == ProbeMain
        IN  \E k \in 1..Len(patterns) :
                /\ main \in Range(fs)
                /\ Matches(patterns, main, k)
                /\ \A j \in 1..(k - 1) : \A f \in Range(fs) : ~ Matches(patterns, f, j)

\* a later pattern matches more files than the pattern that was selected
C4_Witness ==
    /\ ProbeFound
    /\ \E k \in 1..Len(ProbePatterns) :
           /\ MatchedBy(ProbeMain, k)
           /\ \A j \in 1..(k - 1) : \A f \in Range(fs) : ~ MatchedBy(f, j)
           /\ \E j \in (k + 1)..Len(ProbePatterns) :
                  /\ Cardinality({f \in Range(fs) : MatchedBy(f, j)})
                       > Cardinality({f \in Range(fs) : MatchedBy(f, k)})
                  /\ \E f \in Range(fs) : MatchedBy(f, j) /\ ~ MatchedBy(f, k)

\* the files matched by the pattern that matched the main result
ProbeSelected ==
    LET patterns == ProbePatterns
        hit(k)   == \E f \in Range(fs) : Matches(patterns, f, k)
        k == CHOOSE k \in 1..Len(patterns) : hit(k) /\ \A j \in 1..(k - 1) : ~ hit(j)
    IN  {f \in Range(fs) : Matches(patterns, f, k)}

\* C5: when the selected pattern matches several files, the main result is a
\* match whose name starts with the input base name if there is one, and
\* otherwise the first match of the listing; so the listing decides it.
C5_PrefixThenFirst ==
    ProbeFound =>
        LET selected == ProbeSelected
            main     == ProbeMain
        IN  Cardinality(selected) > 1 =>
                /\ main \in selected
                /\ IF \E f \in selected : startswith(f.name, ProbeName)
                   THEN startswith(main.name, ProbeName)
                   ELSE \A f \in selected : PosIn(fs, main) <= PosIn(fs, f)

\* several matches, the first of the listing does not start with the input
\* base name and a later one does
C5_Witness ==
    /\ ProbeFound
    /\ Cardinality(ProbeSelected) > 1
    /\ startswith(ProbeMain.name, ProbeName)
    /\ \E f \in ProbeSelected :
           /\ ~ startswith(f.name, ProbeName)
           /\ PosIn(fs, f) < PosIn(fs, ProbeMain)

\* the file of the primary pattern, <result_dir>/final_results/<input base name>.png
ProbePrimary ==
    Path(AbsDir(CodeFormerCwd, ProbePatterns[1][1]), ProbeName \o Png)

\* C6: a CodeFormer request with an existing input and a weight in [0,1] whose
\* process exited 0 with the primary file written is answered with success and
\* that file as main_result, whatever else the result directory holds.
C6_PrimaryIsMain ==
    (probe # NoProbe /\ ProbePrimary \in Range(fs)) =>
        /\ "status" \in DOMAIN probe.response
        /\ probe.response.status = "success"
        /\ probe.response.output_files.main_result = ProbePrimary

\* the files of the filesystem a list of output_files names
FilesOf(paths) == {abspath(CodeFormerCwd, paths[i]) : i \in 1..Len(paths)}

\* the entries of directory d whose names start with the input base name
StartingWith(d, name) == {f \in Range(fs) : f.dir = d /\ startswith(f.name, name)}

\* C16 as claimed: when find_output_files finds a main result, related_files
\* is exactly the entries of the main result's directory whose names start
\* with the input base name, and cropped_faces is present exactly when a
\* directory cropped_faces exists beside that directory and is then exactly
\* its entries whose names start with the input base name; when it finds none,
\* the record has none of the three keys.
C16_SecondaryPassExact ==
    probe # NoProbe =>
        LET output_files == probe.output_files
        IN  IF "main_result" \in DOMAIN output_files
            THEN LET main    == ProbeMain
                     cropped == Parent(main.dir) \o <<"cropped_faces">>
                 IN  /\ "related_files" \in DOMAIN output_files
                     /\ FilesOf(output_files.related_files)
                            = StartingWith(main.dir, ProbeName)
                     /\ "cropped_faces" \in DOMAIN output_files
                            <=> DirExists(fs, dirs, CodeFormerCwd, cropped)
                     /\ "cropped_faces" \in DOMAIN output_files =>
                            FilesOf(output_files.cropped_faces)
                                = StartingWith(cropped, ProbeName)
            ELSE DOMAIN output_files = {}

\* the name ends with the suffix
endswith(s, suffix) ==
    /\ Len(suffix) <= Len(s)
    /\ SubSeq(s, Len(s) - Len(suffix) + 1, Len(s)) = suffix

\* C18 as claimed: when final_results, restored_faces or the result directory
\* holds a .png file whose name starts with the input base name, the main
\* result of find_output_files is a file whose name starts with the input
\* base name.
C18_GenericIsLastResort ==
    probe # NoProbe =>
        ((\E f \in Range(fs) :
              /\ f.dir \in ProbeDirs
              /\ endswith(f.name, Png)
              /\ startswith(f.name, ProbeName)) =>
            /\ ProbeFound
            /\ startswith(ProbeMain.name, ProbeName))

\* C19 as claimed: whenever the name of the main result starts with the
\* input base name, the main result is itself a member of related_files.
C19_MainIsRelated ==
    (ProbeFound /\ startswith(ProbeMain.name, ProbeName)) =>
        \E i \in 1..Len(probe.output_files.related_files) :
            probe.output_files.related_files[i] = probe.output_files.main_result

-----------------------------------------------------------------------------
(* The three backend services *)

\* the GFPGAN and Ref-LDM services run their script with cwd = the script's
\* directory; the services are taken to be started from there too
GfpganCwd == <<"/", "srv", "GFPGAN">>
RefLdmCwd == <<"/", "srv", "ref-ldm">>

Cwd(kind) ==
    CASE kind = "CodeFormer" -> CodeFormerCwd
      [] kind = "GFPGAN"     -> GfpganCwd
      [] kind = "Ref-LDM"    -> RefLdmCwd

\* request bodies: RestoreRequest (CodeFormer), RestoreRequest (GFPGAN), GenerateRequest
CodeFormerRequest(i, o, w) ==
    [kind |-> "CodeFormer", input_path |-> i, output_path |-> o, weight |-> w]

GfpganRequest(i, o, v, u, w) ==
    [kind |-> "GFPGAN", input_path |-> i, output_path |-> o, version |-> v,
     upscale |-> u, weight |-> w]

GenerateRequest(lq, refs, o, c, d, s) ==
    [kind |-> "Ref-LDM", lq_path |-> lq, ref_paths |-> refs, output_path |-> o,
     cfg_scale |-> c, ddim_step |-> d, seed |-> s]

\* field defaults of the request models
GfpganDefaultOut == <<"results">>
RefLdmDefaultOut == Path(<<>>, <<"r", "e", "s", "u", "l", "t">> \o Png)

\* an HTTPException(status_code, detail) as FastAPI answers it; a detail that
\* is a string is kept as [text |-> ...]
HTTPException(status_code, detail) == [code |-> status_code, body |-> [detail |-> detail]]

\* a returned dict, answered with status 200
Ok(body) == [code |-> 200, body |-> body]

\* ---- CodeFormer: restore_face up to subprocess.run ----

\* mutant of CodeFormerAccepts: the existence check is dropped
CodeFormerAcceptsAll(listing, request) == TRUE

\* restore_face goes on to the inference process
CodeFormerAccepts(listing, request) ==
    exists(listing, CodeFormerCwd, request.input_path)

CodeFormerRejection(request) ==
    Ok([error |-> InputMissing, file_path |-> request.input_path])

\* directories restore_face creates before the process starts
CodeFormerMakedirs(request) ==
    IF request.output_path # None
    THEN {AbsDir(CodeFormerCwd, request.output_path)}
    ELSE {}

\* ---- GFPGAN: restore_face ----

GfpganAccepts(listing, request) ==
    isfile(listing, GfpganCwd, request.input_path)

GfpganRejection(request) ==
    HTTPException(404, [text |-> <<"Input file not found at", request.input_path>>])

GfpganMakedirs(request) == {AbsDir(GfpganCwd, request.output_path)}

\* restore_face after subprocess.run(check=True) returned or raised
GfpganAfterRun(listing, request, result) ==
    IF Resolves(request, result)
    THEN LET input_basename   == splitext(request.input_path.name)
             restored_img_dir == request.output_path \o <<"restored_imgs">>
             possible_files   == glob(listing, GfpganCwd, restored_img_dir,
                                      input_basename \o <<".", "*">>)
         IN  IF possible_files # <<>>
             THEN Ok([status      |-> "success",
                      output_file |-> abspath(GfpganCwd, possible_files[1]),
                      message     |-> "Face restoration complete."])
             ELSE HTTPException(500,
                      [text |-> "Processing succeeded but the output file was not found."])
    ELSE HTTPException(500, [error   |-> "Face restoration failed.",
                             details |-> result.stderr,
                             stdout  |-> result.stdout])

\* ---- Ref-LDM: generate_image ----

\* the first check of generate_image that fails, "" when none does
RefLdmRejected(listing, request) ==
    IF ~ exists(listing, RefLdmCwd, request.lq_path) THEN "lq"
    ELSE IF \E i \in 1..Len(request.ref_paths) :
                ~ exists(listing, RefLdmCwd, request.ref_paths[i]) THEN "ref"
    ELSE ""

RefLdmAccepts(listing, request) == RefLdmRejected(listing, request) = ""

RefLdmRejection(listing, request) ==
    IF RefLdmRejected(listing, request) = "lq"
    THEN HTTPException(404,
             [text |-> <<"Low-quality image not found at", request.lq_path>>])
    ELSE LET bad == CHOOSE i \in 1..Len(request.ref_paths) :
                        /\ ~ exists(listing, RefLdmCwd, request.ref_paths[i])
                        /\ \A j \in 1..(i - 1) :
                               exists(listing, RefLdmCwd, request.ref_paths[j])
         IN  HTTPException(404,
                 [text |-> <<"Reference image not found at", request.ref_paths[bad]>>])

RefLdmMakedirs(request) ==
    IF request.output_path.dir # <<>>
    THEN {AbsDir(RefLdmCwd, request.output_path.dir)}
    ELSE {}

\* mutant of RefLdmAfterRun: output_path is not looked for before success
RefLdmAfterRunUnchecked(listing, request, result) ==
    IF Resolves(request, result)
    THEN Ok([status      |-> "success",
             output_file |-> abspath(RefLdmCwd, request.output_path),
             message     |-> "Image generation complete."])
    ELSE HTTPException(500, [error   |-> "Image generation failed.",
                             details |-> result.stderr,
                             stdout  |-> result.stdout])

\* generate_image after subprocess.run(check=True) returned or raised
RefLdmAfterRun(listing, request, result) ==
    IF Resolves(request, result)
    THEN IF exists(listing, RefLdmCwd, request.output_path)
         THEN Ok([status      |-> "success",
                  output_file |-> abspath(RefLdmCwd, request.output_path),
                  message     |-> "Image generation complete."])
         ELSE HTTPException(500,
                  [text |-> "Processing succeeded but the output file was not found."])
    ELSE HTTPException(500, [error   |-> "Image generation failed.",
                             details |-> result.stderr,
                             stdout  |-> result.stdout])

\* ---- the three handlers, by kind ----

Accepts(listing, request) ==
    CASE request.kind = "CodeFormer" -> CodeFormerAccepts(listing, request)
      [] request.kind = "GFPGAN"     -> GfpganAccepts(listing, request)
      [] request.kind = "Ref-LDM"    -> RefLdmAccepts(listing, request)

Rejection(listing, request) ==
    CASE request.kind = "CodeFormer" -> CodeFormerRejection(request)
      [] request.kind = "GFPGAN"     -> GfpganRejection(request)
      [] request.kind = "Ref-LDM"    -> RefLdmRejection(listing, request)

Makedirs(request) ==
    CASE request.kind = "CodeFormer" -> CodeFormerMakedirs(request)
      [] request.kind = "GFPGAN"     -> GfpganMakedirs(request)
      [] request.kind = "Ref-LDM"    -> RefLdmMakedirs(request)

AfterRun(listing, made, request, result) ==
    CASE request.kind = "CodeFormer" -> Ok(CodeFormerAfterRun(listing, made, request, result))
      [] request.kind = "GFPGAN"     -> GfpganAfterRun(listing, request, result)
      [] request.kind = "Ref-LDM"    -> RefLdmAfterRun(listing, request, result)

\* the directory the inference process of the request writes into
OutputDir(request) ==
    CASE request.kind = "CodeFormer" ->
             AbsDir(CodeFormerCwd, ResultDir(request.output_path, request.weight))
      [] request.kind = "GFPGAN"     -> AbsDir(GfpganCwd, request.output_path)
      [] request.kind = "Ref-LDM"    -> AbsDir(RefLdmCwd, request.output_path.dir)

-----------------------------------------------------------------------------
(* The external inference processes *)

\* what subprocess.run may hand back: exit 0, a failure with output, a silent failure
ProcResults ==
    {[returncode |-> 0, stdout |-> "done", stderr |-> ""],
     [returncode |-> 1, stdout |-> "log",  stderr |-> "Traceback"],
     [returncode |-> 1, stdout |-> "",     stderr |-> ""]}

\* files the inference script of a request may write: its result where the
\* service looks for it, and a by-product where the service does not look
ProcOutputs(request) ==
    LET out == OutputDir(request)
    IN  CASE request.kind = "CodeFormer" ->
                 {Path(out \o <<"final_results">>, splitext(request.input_path.name) \o Png),
                  Path(out \o <<"cropped_faces">>,
                       splitext(request.input_path.name) \o <<"_", "0", "0">> \o Png)}
          [] request.kind = "GFPGAN" ->
                 {Path(out \o <<"restored_imgs">>, request.input_path.name),
                  Path(out \o <<"cropped_faces">>,
                       splitext(request.input_path.name) \o <<"_", "0", "0">> \o Png)}
          [] request.kind = "Ref-LDM" ->
                 {abspath(RefLdmCwd, request.output_path)}

-----------------------------------------------------------------------------
(* Requests sent to the services directly *)

SharedOut == <<"/", "data", "out">>

CodeFormerRequests ==
    {CodeFormerRequest(InputImg, None, 5),
     CodeFormerRequest(MissingImg, None, 5),
     CodeFormerRequest(InputImg, SharedOut, 5),
     CodeFormerRequest(MissingImg, SharedOut, 5),
     CodeFormerRequest(InputImg, None, 20)}

GfpganRequests ==
    {GfpganRequest(InputImg, GfpganDefaultOut, "1.4", 2, 5),
     GfpganRequest(MissingImg, GfpganDefaultOut, "1.4", 2, 5),
     GfpganRequest(InputImg, SharedOut, "1.4", 2, 5),
     GfpganRequest(InputImg, GfpganDefaultOut, "2.0", 2, 5),
     GfpganRequest(InputImg, GfpganDefaultOut, "1.4", 0, 5)}

GenerateRequests ==
    {GenerateRequest(InputImg, <<RefImg>>, RefLdmDefaultOut, 15, 50, 2024),
     GenerateRequest(MissingImg, <<RefImg>>, RefLdmDefaultOut, 15, 50, 2024),
     GenerateRequest(InputImg, <<RefImg, MissingRef>>, RefLdmDefaultOut, 15, 50, 2024),
     GenerateRequest(InputImg, <<>>, RefLdmDefaultOut, 15, 50, 2024),
     GenerateRequest(InputImg, <<RefImg>>, Path(SharedOut, <<"o">> \o Png), 15, 50, 2024),
     GenerateRequest(InputImg, <<MissingRef>>, Path(SharedOut, <<"o">> \o Png), 15, 50, 2024),
     GenerateRequest(InputImg, <<RefImg>>, RefLdmDefaultOut, 0, 50, 2024),
     GenerateRequest(InputImg, <<RefImg>>, RefLdmDefaultOut, 15, 0, 2024)}

DirectRequests == CodeFormerRequests \cup GfpganRequests \cup GenerateRequests

-----------------------------------------------------------------------------
(* process_image *)

AppCwd   == <<"/", "srv", "app">>
TEMP_DIR == <<"gradio_temp">>

NoImg == Path(<<>>, <<>>)

\* str(uuid.uuid4()): the n-th value drawn, each one new
Uuid(n) == "u" \o Digit[n + 1]
UuidChars(n) == <<"u", Digit[n + 1]>>

ProcessImageArgs(model, main_image, ref_images) ==
    [model |-> model, main_image |-> main_image, ref_images |-> ref_images,
     weight |-> 5, cfg_scale |-> 15, upscale |-> 2, version |-> "1.4"]

AppCalls ==
    {ProcessImageArgs("CodeFormer", InputImg, <<>>),
     ProcessImageArgs("CodeFormer", NoImg, <<>>),
     ProcessImageArgs("GFPGAN", InputImg, <<>>),
     ProcessImageArgs("Ref-LDM", InputImg, <<RefImg>>),
     ProcessImageArgs("Ref-LDM", InputImg, <<>>),
     ProcessImageArgs("Unknown", InputImg, <<>>)}

\* gr.Error(message) as it leaves process_image: raised by the first line,
\* by `except requests.exceptions.RequestException`, or by `except Exception`
Raised(handler, message) == [kind |-> "raised", handler |-> handler, message |-> message]
Returned(value) == [kind |-> "returned", value |-> value]

\* the payload process_image posts; n uuid values were drawn before the call
Payload(args, n) ==
    LET output_dir == TEMP_DIR \o <<Uuid(n)>>
    IN  CASE args.model = "CodeFormer" ->
                 CodeFormerRequest(args.main_image, output_dir, args.weight)
          [] args.model = "Ref-LDM" ->
                 GenerateRequest(args.main_image, args.ref_images,
                                 Path(output_dir, UuidChars(n + 1) \o Png),
                                 args.cfg_scale, 50, 2024)
          [] args.model = "GFPGAN" ->
                 GfpganRequest(args.main_image, output_dir, args.version,
                               args.upscale, args.weight)

\* str(e) of the exception requests raises: the ConnectionError of a refused
\* connection (code 0), the HTTPError of response.raise_for_status()
RequestExceptionText(code) ==
    IF code = 0 THEN "Connection refused"
    ELSE IF code < 500 THEN "404 Client Error: Not Found for url"
    ELSE "500 Server Error: Internal Server Error for url"

\* what process_image makes of the response of the service
AppResult(args, response) ==
    IF response.code >= 400
    THEN Raised("RequestException",
             <<"Failed to connect to the backend", args.model,
               RequestExceptionText(response.code)>>)
    ELSE IF "status" \in DOMAIN response.body /\ response.body.status = "success"
    THEN IF args.model = "CodeFormer"
         THEN IF "main_result" \in DOMAIN response.body.output_files
              THEN Returned(response.body.output_files.main_result)
              ELSE Raised("Exception",
                       <<"CodeFormer processing succeeded, but no main output file was found.">>)
         ELSE Returned(response.body.output_file)
    ELSE IF args.model = "Ref-LDM"
         THEN Raised("Exception",
                  <<"Ref-LDM API Error", IF "detail" \in DOMAIN response.body
                                         THEN response.body.detail
                                         ELSE [text |-> "Unknown error"]>>)
         ELSE Raised("Exception",
                  <<"API Error", args.model,
                    IF "error" \in DOMAIN response.body
                    THEN response.body.error ELSE "Unknown error">>)

-----------------------------------------------------------------------------
(* The requests in flight *)

\* a FastAPI service runs its `async def` handler on the event loop and
\* subprocess.run blocks it: a service handles one request at a time
Busy(kind) == \E r \in Requests : pc[r] = "Invoking" /\ req[r].kind = kind

\* a client posts a request to a backend service
Submit(r, request) ==
    /\ pc[r] = "New"
    /\ req' = [req EXCEPT ![r] = request]
    /\ pc' = [pc EXCEPT ![r] = "Received"]
    /\ UNCHANGED <<fs, dirs, resp, started, consulted, wrote, proc, call, appOut, nextUuid, probe>>

\* process_image from its first line to requests.post: connected is whether
\* the service accepted the connection
AppCall(r, args, connected) ==
    /\ pc[r] = "New"
    /\ call' = [call EXCEPT ![r] = args]
    /\ UNCHANGED <<fs, resp, started, consulted, wrote, proc, probe>>
    /\ IF args.main_image = NoImg
       THEN /\ appOut' = [appOut EXCEPT ![r] =
                             Raised("none", <<"Please upload a main image.">>)]
            /\ pc' = [pc EXCEPT ![r] = "Done"]
            /\ UNCHANGED <<dirs, req, nextUuid>>
       ELSE /\ dirs' = dirs \cup {AbsDir(AppCwd, TEMP_DIR \o <<Uuid(nextUuid)>>)}
            /\ IF args.model \notin {"CodeFormer", "Ref-LDM", "GFPGAN"}
               THEN /\ appOut' = [appOut EXCEPT ![r] =
                                     Raised("Exception", <<"Unknown model", args.model>>)]
                    /\ pc' = [pc EXCEPT ![r] = "Done"]
                    /\ nextUuid' = nextUuid + 1
                    /\ UNCHANGED req
               ELSE IF args.model = "Ref-LDM" /\ args.ref_images = <<>>
               THEN /\ appOut' = [appOut EXCEPT ![r] =
                                     Raised("Exception",
                                         <<"Ref-LDM requires at least one reference image.">>)]
                    /\ pc' = [pc EXCEPT ![r] = "Done"]
                    /\ nextUuid' = nextUuid + 1
                    /\ UNCHANGED req
               ELSE /\ nextUuid' = nextUuid + (IF args.model = "Ref-LDM" THEN 2 ELSE 1)
                    /\ IF connected
                       THEN /\ req' = [req EXCEPT ![r] = Payload(args, nextUuid)]
                            /\ pc' = [pc EXCEPT ![r] = "Received"]
                            /\ UNCHANGED appOut
                       ELSE /\ appOut' = [appOut EXCEPT ![r] =
                                             Raised("RequestException",
                                                 <<"Failed to connect to the backend",
                                                   args.model, RequestExceptionText(0)>>)]
                            /\ pc' = [pc EXCEPT ![r] = "Done"]
                            /\ UNCHANGED req

\* mutant of Handle: the output directory is made before the input is checked
HandleMakedirsFirst(r) ==
    /\ pc[r] = "Received"
    /\ ~ Busy(req[r].kind)
    /\ dirs' = dirs \cup Makedirs(req[r])
    /\ IF Accepts(fs, req[r])
       THEN /\ started' = [started EXCEPT ![r] = @ + 1]
            /\ proc' = [proc EXCEPT ![r] = Running]
            /\ pc' = [pc EXCEPT ![r] = "Invoking"]
            /\ UNCHANGED resp
       ELSE /\ resp' = [resp EXCEPT ![r] = Rejection(fs, req[r])]
            /\ pc' = [pc EXCEPT ![r] = "Responded"]
            /\ UNCHANGED <<started, proc>>
    /\ UNCHANGED <<fs, req, consulted, wrote, call, appOut, nextUuid, probe>>

\* the handler of the service from its first line to subprocess.run, or to
\* the response that rejects the request
Handle(r) ==
    /\ pc[r] = "Received"
    /\ ~ Busy(req[r].kind)
    /\ IF Accepts(fs, req[r])
       THEN /\ dirs' = dirs \cup Makedirs(req[r])
            /\ started' = [started EXCEPT ![r] = @ + 1]
            /\ proc' = [proc EXCEPT ![r] = Running]
            /\ pc' = [pc EXCEPT ![r] = "Invoking"]
            /\ UNCHANGED resp
       ELSE /\ resp' = [resp EXCEPT ![r] = Rejection(fs, req[r])]
            /\ pc' = [pc EXCEPT ![r] = "Responded"]
            /\ UNCHANGED <<dirs, started, proc>>
    /\ UNCHANGED <<fs, req, consulted, wrote, call, appOut, nextUuid, probe>>

\* the running inference process writes (or overwrites) a file
ProcWrite(r) ==
    /\ pc[r] = "Invoking"
    /\ proc[r] = Running
    /\ Cardinality(wrote[r]) < MaxWrites
    /\ \E f \in ProcOutputs(req[r]) \ wrote[r] :
           /\ wrote' = [wrote EXCEPT ![r] = @ \cup {f}]
           /\ IF f \in Range(fs)
              THEN fs' = fs
              ELSE \E i \in InsertPositions(fs, f) : fs' = InsertAt(fs, i, f)
    /\ UNCHANGED <<dirs, req, pc, resp, started, consulted, proc, call, appOut, nextUuid, probe>>

\* the inference process never exits: subprocess.run is given no timeout
\* and waits for it without end
ProcHang(r) ==
    /\ pc[r] = "Invoking"
    /\ proc[r] = Running
    /\ proc' = [proc EXCEPT ![r] = Hung]
    /\ UNCHANGED <<fs, dirs, req, pc, resp, started, consulted, wrote, call, appOut, nextUuid, probe>>

\* mutant of ProcExit: a failed process sends the request back to be run again
ProcExitRetry(r, result) ==
    /\ pc[r] = "Invoking"
    /\ proc[r] = Running
    /\ IF Resolves(req[r], result)
       THEN /\ proc' = [proc EXCEPT ![r] = Exited(result)]
            /\ resp' = [resp EXCEPT ![r] = AfterRun(fs, dirs, req[r], result)]
            /\ consulted' = [consulted EXCEPT ![r] = @ + 1]
            /\ pc' = [pc EXCEPT ![r] = "Responded"]
       ELSE /\ proc' = [proc EXCEPT ![r] = NotStarted]
            /\ pc' = [pc EXCEPT ![r] = "Received"]
            /\ started[r] < 2
            /\ UNCHANGED <<resp, consulted>>
    /\ UNCHANGED <<fs, dirs, req, started, wrote, call, appOut, nextUuid, probe>>

\* the inference process exits and the handler runs from the return of
\* subprocess.run to its response
ProcExit(r, result) ==
    /\ pc[r] = "Invoking"
    /\ proc[r] = Running
    /\ proc' = [proc EXCEPT ![r] = Exited(result)]
    /\ resp' = [resp EXCEPT ![r] = AfterRun(fs, dirs, req[r], result)]
    /\ consulted' = [consulted EXCEPT ![r] = IF Resolves(req[r], result) THEN @ + 1 ELSE @]
    /\ pc' = [pc EXCEPT ![r] = "Responded"]
    /\ UNCHANGED <<fs, dirs, req, started, wrote, call, appOut, nextUuid, probe>>

\* process_image from the return of requests.post to its end
AppReturn(r) ==
    /\ pc[r] = "Responded"
    /\ call[r] # NoCall
    /\ appOut' = [appOut EXCEPT ![r] = AppResult(call[r], resp[r])]
    /\ pc' = [pc EXCEPT ![r] = "Done"]
    /\ UNCHANGED <<fs, dirs, req, resp, started, consulted, wrote, proc, call, nextUuid, probe>>

Next ==
    \/ \E r \in Requests, request \in DirectRequests : Submit(r, request)
    \/ \E r \in Requests, args \in AppCalls, connected \in BOOLEAN : AppCall(r, args, connected)
    \/ \E r \in Requests : Handle(r)
    \/ \E r \in Requests : ProcWrite(r)
    \/ \E r \in Requests : ProcHang(r)
    \/ \E r \in Requests, result \in ProcResults : ProcExit(r, result)
    \/ \E r \in Requests : AppReturn(r)

Spec == Init /\ [][Next]_vars

\* no request is left waiting: a step of a handler, of process_image or of a
\* process that can be taken is taken in the end
FairSpec == Spec /\ WF_vars(Next)

-----------------------------------------------------------------------------
(* Claims about the requests *)

\* the request has been answered by its service
Answered(r) == pc[r] \in {"Responded", "Done"} /\ resp[r] # NoResp

\* the class of a response: success, or which of the three failures the
\* service reported
Outcome(response) ==
    CASE response.code = 200 /\ "status" \in DOMAIN response.body
             /\ response.body.status = "success"               -> "Succeeded"
      [] response.code = 200 /\ "error" \in DOMAIN response.body
             /\ response.body.error = InputMissing             -> "ValidationError"
      [] response.code = 404                                   -> "ValidationError"
      [] response.code = 200 /\ "error" \in DOMAIN response.body
             /\ response.body.error = ProcessFailed            -> "InvocationError"
      [] response.code = 500
             /\ "details" \in DOMAIN response.body.detail      -> "InvocationError"
      [] response.code = 200 /\ "error" \in DOMAIN response.body
             /\ response.body.error = OutputNotFound           -> "ResolutionError"
      [] response.code = 500
             /\ "text" \in DOMAIN response.body.detail         -> "ResolutionError"
      [] OTHER                                                 -> "Unknown"

\* the stderr text a failure response carries
StderrOf(response) ==
    IF response.code = 200 THEN response.body.details
    ELSE response.body.detail.details

\* the input image of a request
InputOf(request) ==
    IF request.kind = "Ref-LDM" THEN request.lq_path ELSE request.input_path

\* the path names nothing on the filesystem
Absent(p, cwd) == p \notin StaticFiles /\ abspath(cwd, p) \notin Range(fs)

\* C1: on each of the three services, a request whose input path names no
\* existing file ends in a validation failure, and the inference process is
\* not started for it.
C1_MissingInputRejected ==
    \A r \in Requests :
        (req[r] # NoReq /\ Absent(InputOf(req[r]), Cwd(req[r].kind))) =>
            /\ started[r] = 0
            /\ proc[r] = NotStarted
            /\ Answered(r) => Outcome(resp[r]) = "ValidationError"

\* the three services have each answered or are answering a request with a
\* missing input: one answered on each of two services here
C1_Witness ==
    \E r1, r2 \in Requests :
        /\ req[r1] # NoReq /\ req[r2] # NoReq
        /\ req[r1].kind # req[r2].kind
        /\ req[r1].kind = "CodeFormer"
        /\ Absent(InputOf(req[r1]), Cwd(req[r1].kind))
        /\ Absent(InputOf(req[r2]), Cwd(req[r2].kind))
        /\ Answered(r1) /\ Answered(r2)

\* file f is at one of the output locations the service of the request searches
Candidate(request, f) ==
    CASE request.kind = "CodeFormer" ->
             LET patterns == possible_patterns(
                                 ResultDir(request.output_path, request.weight),
                                 splitext(request.input_path.name))
             IN  \E k \in 1..Len(patterns) :
                     /\ f.dir = AbsDir(CodeFormerCwd, patterns[k][1])
                     /\ fnmatch(f.name, patterns[k][2])
      [] request.kind = "GFPGAN" ->
             /\ f.dir = AbsDir(GfpganCwd, request.output_path \o <<"restored_imgs">>)
             /\ fnmatch(f.name, splitext(request.input_path.name) \o <<".", "*">>)
      [] request.kind = "Ref-LDM" ->
             f = abspath(RefLdmCwd, request.output_path)

\* C2 as claimed: a request whose process exited 0 and wrote no file at any
\* candidate output location ends in a resolution failure, never in success,
\* whatever the filesystem held before.
C2_NoOutputIsResolutionError ==
    \A r \in Requests :
        (/\ Answered(r)
         /\ proc[r].state = "exited"
         /\ proc[r].returncode = 0
         /\ \A f \in wrote[r] : ~ Candidate(req[r], f)) =>
            Outcome(resp[r]) = "ResolutionError"

\* C3 as claimed: a request whose process exited non-zero ends in an invocation
\* failure that carries a non-empty stderr text, and the output resolver is
\* not consulted, whether or not the process wrote output files.
C3_FailureCarriesNonEmptyStderr ==
    \A r \in Requests :
        (Answered(r) /\ proc[r].state = "exited" /\ proc[r].returncode # 0) =>
            /\ Outcome(resp[r]) = "InvocationError"
            /\ StderrOf(resp[r]) # ""
            /\ consulted[r] = 0

\* C3 amended: a request whose process exited non-zero ends in an invocation
\* failure that carries the stderr text captured from the process, which is
\* empty when the process wrote nothing to stderr, and the output resolver is
\* not consulted, whether or not the process wrote output files.
C3_FailureCarriesStderr ==
    \A r \in Requests :
        (Answered(r) /\ proc[r].state = "exited" /\ proc[r].returncode # 0) =>
            /\ Outcome(resp[r]) = "InvocationError"
            /\ StderrOf(resp[r]) = proc[r].stderr
            /\ consulted[r] = 0

\* a process wrote its result at a candidate location and then exited non-zero
C3_Witness ==
    \E r \in Requests :
        /\ Answered(r)
        /\ proc[r].state = "exited"
        /\ proc[r].returncode # 0
        /\ proc[r].stderr # ""
        /\ \E f \in wrote[r] : Candidate(req[r], f) /\ f \in Range(fs)

\* C7 as claimed: two requests whose inference processes run at the same time
\* never write into the same output directory.
C7_DisjointOutputDirs ==
    \A r1, r2 \in Requests :
        (r1 # r2 /\ pc[r1] = "Invoking" /\ pc[r2] = "Invoking") =>
            OutputDir(req[r1]) # OutputDir(req[r2])

\* C8 as claimed: a Ref-LDM generate request with an empty list of reference
\* paths ends in a validation failure and its inference process is not started.
C8_EmptyRefsRejected ==
    \A r \in Requests :
        (req[r] # NoReq /\ req[r].kind = "Ref-LDM" /\ req[r].ref_paths = <<>>) =>
            /\ started[r] = 0
            /\ Answered(r) => Outcome(resp[r]) = "ValidationError"

\* a kind-specific numeric field of the request is outside its declared range
OutOfRange(request) ==
    CASE request.kind = "CodeFormer" -> request.weight < 0 \/ request.weight > 10
      [] request.kind = "GFPGAN"     ->
             request.upscale < 1 \/ request.version \notin {"1.3", "1.4"}
      [] request.kind = "Ref-LDM"    -> request.cfg_scale <= 0 \/ request.ddim_step <= 0

\* C9 as claimed: a request with a numeric field outside its declared range
\* ends in a validation failure and its inference process is not started.
C9_OutOfRangeRejected ==
    \A r \in Requests :
        (req[r] # NoReq /\ OutOfRange(req[r])) =>
            /\ started[r] = 0
            /\ Answered(r) => Outcome(resp[r]) = "ValidationError"

\* C10 as claimed: every request a service received is answered in the end;
\* one whose inference process never exits is ended by a timeout.
C10_EveryRequestEnds ==
    \A r \in Requests : (pc[r] = "Received") ~> (pc[r] \in {"Responded", "Done"})

\* process_image has ended for the request
AppEnded(r) == call[r] # NoCall /\ pc[r] = "Done" /\ appOut[r] # NoOut

\* C11 as claimed: process_image reports a failure of the failed-to-connect
\* class only when the connection to the backend failed; a request the backend
\* answered with an invocation or a resolution failure is never reported so.
C11_ConnectFailureOnlyWhenUnreachable ==
    \A r \in Requests :
        (AppEnded(r) /\ appOut[r].kind = "raised"
                     /\ appOut[r].handler = "RequestException") =>
            resp[r] = NoResp

\* the message of the gr.Error is made of the text, among its other parts
CarriesText(message, text) ==
    text = "" \/ \E i \in 1..Len(message) : message[i] = text

\* C12 as claimed: for a request whose inference process ran and failed, the
\* error process_image raises to its caller contains the stdout and the
\* stderr text captured from the process.
C12_FailureOutputReachesCaller ==
    \A r \in Requests :
        (AppEnded(r) /\ proc[r].state = "exited" /\ proc[r].returncode # 0) =>
            /\ appOut[r].kind = "raised"
            /\ CarriesText(appOut[r].message, proc[r].stdout)
            /\ CarriesText(appOut[r].message, proc[r].stderr)

\* C13 as claimed: every response of POST /restore (the CodeFormer and the
\* GFPGAN service), on every path of restore_face, carries a status field
\* whose value is success or error.
C13_RestoreResponseHasStatus ==
    \A r \in Requests :
        (Answered(r) /\ req[r].kind \in {"CodeFormer", "GFPGAN"}) =>
            /\ "status" \in DOMAIN resp[r].body
            /\ resp[r].body.status \in {"success", "error"}

\* the response names a main result: output_files.main_result of the
\* CodeFormer service, output_file of the two others
HasMain(response) ==
    \/ /\ "output_files" \in DOMAIN response.body
       /\ "main_result" \in DOMAIN response.body.output_files
    \/ "output_file" \in DOMAIN response.body

MainResultOf(response) ==
    IF "output_files" \in DOMAIN response.body
    THEN response.body.output_files.main_result
    ELSE response.body.output_file

\* C14: a request that ended in success carries a main result path that
\* names a file of the filesystem when the response is produced (and nothing
\* removes it afterwards); process_image returns only the main result of a
\* success response.
C14_SuccessHasExistingMain ==
    \A r \in Requests :
        /\ (Answered(r) /\ Outcome(resp[r]) = "Succeeded") =>
               /\ HasMain(resp[r])
               /\ MainResultOf(resp[r]) \in Range(fs)
        /\ (AppEnded(r) /\ appOut[r].kind = "returned") =>
               /\ Answered(r)
               /\ Outcome(resp[r]) = "Succeeded"
               /\ appOut[r].value = MainResultOf(resp[r])
               /\ appOut[r].value \in Range(fs)

\* process_image has returned the main result of a success on each of two
\* services, a CodeFormer one among them
C14_Witness ==
    \E r1, r2 \in Requests :
        /\ AppEnded(r1) /\ appOut[r1].kind = "returned"
        /\ AppEnded(r2) /\ appOut[r2].kind = "returned"
        /\ req[r1].kind = "CodeFormer" /\ req[r2].kind # "CodeFormer"
        /\ appOut[r1].value \in wrote[r1]
        /\ appOut[r2].value \in wrote[r2]

\* the order of the positions of a request
Rank(p) ==
    CASE p = "New"       -> 0
      [] p = "Received"  -> 1
      [] p = "Invoking"  -> 2
      [] p = "Responded" -> 3
      [] p = "Done"      -> 4

\* C15: a request moves only forward (received, validated and invoking,
\* resolving, answered): its process is started at most once, the output
\* search runs at most once and only after the process exited 0, no position
\* is taken again once left, and nothing of the request changes after its
\* answer but process_image handing that answer on.
C15_ForwardOnly ==
    /\ [](\A r \in Requests :
              /\ started[r] <= 1
              /\ consulted[r] <= started[r]
              /\ consulted[r] = 1 =>
                     (proc[r].state = "exited" /\ proc[r].returncode = 0)
              /\ pc[r] \in {"New", "Received"} => started[r] = 0)
    /\ [][\A r \in Requests :
              /\ Rank(pc'[r]) >= Rank(pc[r])
              /\ pc[r] \in {"Responded", "Done"} =>
                     /\ resp'[r] = resp[r]
                     /\ req'[r] = req[r]
                     /\ proc'[r] = proc[r]
                     /\ started'[r] = started[r]
                     /\ consulted'[r] = consulted[r]
                     /\ wrote'[r] = wrote[r]
              /\ pc[r] = "Done" => (pc'[r] = "Done" /\ appOut'[r] = appOut[r])]_vars

\* one request went through every position to a success process_image
\* returned, another ended in the failure of its process
C15_Witness ==
    \E r1, r2 \in Requests :
        /\ AppEnded(r1) /\ appOut[r1].kind = "returned"
        /\ started[r1] = 1 /\ consulted[r1] = 1
        /\ Answered(r2) /\ Outcome(resp[r2]) = "InvocationError"
        /\ started[r2] = 1 /\ consulted[r2] = 0

\* file f lies in directory d or below it
InDir(f, d) == Len(f.dir) >= Len(d) /\ SubSeq(f.dir, 1, Len(d)) = d

\* the request names its output location
ExplicitOut(request) == request.kind = "CodeFormer" => request.output_path # None

\* file f lies at the output location of the request
InOwnLocation(request, f) ==
    CASE request.kind = "CodeFormer" ->
             InDir(f, AbsDir(CodeFormerCwd, request.output_path))
      [] request.kind = "GFPGAN" ->
             f.dir = AbsDir(GfpganCwd, request.output_path \o <<"restored_imgs">>)
      [] request.kind = "Ref-LDM" ->
             f = abspath(RefLdmCwd, request.output_path)

C20_RejectionLeavesFsUnchanged ==
    [][\A r \in Requests :
          (/\ pc[r] = "Received"
           /\ pc'[r] = "Responded"
           /\ Outcome(resp'[r]) = "ValidationError") =>
              /\ fs' = fs
              /\ dirs' = dirs
              /\ started'[r] = 0]_vars

\* a Ref-LDM request with a missing reference file and a CodeFormer or
\* GFPGAN request with a missing input, each naming an output directory,
\* have been rejected and neither directory exists
C20_Witness ==
    \E r1, r2 \in Requests :
        /\ Answered(r1) /\ Outcome(resp[r1]) = "ValidationError"
        /\ Answered(r2) /\ Outcome(resp[r2]) = "ValidationError"
        /\ req[r1].kind = "Ref-LDM" /\ req[r2].kind # "Ref-LDM"
        /\ RefLdmRejected(fs, req[r1]) = "ref"
        /\ Makedirs(req[r1]) # {} /\ Makedirs(req[r2]) # {}
        /\ (Makedirs(req[r1]) \cup Makedirs(req[r2])) \cap dirs = {}

=============================================================================
